---------------------------- MODULE Spec2Model ----------------------------
(* The Worker node of the multi-agent graph: construction of a worker      *)
(* (Worker_MultiAgents.init, createAgent) and the invocation of its step   *)
(* (workerNode / agentNode).                                                *)
(*                                                                          *)
(* Text is a sequence of one-character strings.  A value that JavaScript    *)
(* would hold as undefined is the one-element sequence Undefined, which no  *)
(* text over one-character strings can equal.                               *)
EXTENDS Integers, Sequences, FiniteSets, TLC

Undefined == <<"undefined">>

(* ------------------------------ bounds --------------------------------- *)
\* longest worker display name drawn for construction
MaxLabelLen == 3
\* most pieces (literal text or a placeholder) a drawn prompt template has
MaxTemplateSegs == 2
\* most pieces a drawn prompt input value has
MaxValueSegs == 1
\* most tools a drawn tool list holds
MaxTools == 2
\* most invocations of the worker's step in one run
MaxCalls == 2
\* most model calls the executor makes in one invocation when it has no cap
MaxSteps == 2
\* largest iteration cap drawn for the Max Iterations input
MaxIterCap == 2
MaxClock == 2

(* --------------------------- text helpers ------------------------------ *)
RECURSIVE Concat(_)
\* the pieces of ss joined into one text
Concat(ss) == IF ss = <<>> THEN <<>> ELSE Head(ss) \o Concat(Tail(ss))

\* all sequences over S of length at most n
SeqsUpTo(S, n) == UNION { [1..k -> S] : k \in 0..n }

\* does text p occur in text s starting at index i
MatchesAt(s, p, i) ==
    /\ i + Len(p) - 1 <= Len(s)
    /\ \A k \in 1..Len(p) : s[i + k - 1] = p[k]

\* String.prototype.toLowerCase on one character of the drawn alphabet
LowerChar(c) ==
    CASE c = "A" -> "a"
      [] c = "R" -> "r"
      [] OTHER -> c

toLowerCase(s) == [i \in 1..Len(s) |-> LowerChar(s[i])]

\* the characters the regular expression \s matches, which are also the
\* characters String.prototype.trim removes
WhiteSpace == {" ", "\t"}

RECURSIVE TrimLeft(_)
TrimLeft(s) == IF s # <<>> /\ Head(s) \in WhiteSpace THEN TrimLeft(Tail(s)) ELSE s

RECURSIVE TrimRight(_)
TrimRight(s) ==
    IF s # <<>> /\ s[Len(s)] \in WhiteSpace
    THEN TrimRight(SubSeq(s, 1, Len(s) - 1))
    ELSE s

trim(s) == TrimRight(TrimLeft(s))

\* s.replace(/\s/, '_') without the g flag: only the first white space
RECURSIVE ReplaceFirstSpace(_)
ReplaceFirstSpace(s) ==
    IF s = <<>> THEN <<>>
    ELSE IF Head(s) \in WhiteSpace THEN <<"_">> \o Tail(s)
    ELSE <<Head(s)>> \o ReplaceFirstSpace(Tail(s))

\* workerLabel.toLowerCase().replace(/\s/, '_').trim()
NormalizeFirstOnly(label) == trim(ReplaceFirstSpace(toLowerCase(label)))

\* workerLabel.toLowerCase().replace(/\s/g, '_').trim()
Normalize(label) ==
    trim([i \in 1..Len(label) |->
            IF toLowerCase(label)[i] \in WhiteSpace THEN "_" ELSE toLowerCase(label)[i]])


(* ----------------------- Prompt/Variable Resolver ---------------------- *)
\* the names a sequence of names holds, each kept at its first place
RECURSIVE Dedupe(_)
Dedupe(names) ==
    IF names = <<>> THEN <<>>
    ELSE LET rest == Dedupe(SubSeq(names, 1, Len(names) - 1))
             last == names[Len(names)]
         IN IF \E i \in 1..Len(rest) : rest[i] = last THEN rest ELSE Append(rest, last)

RECURSIVE ScanVariables(_, _, _)
\* one pass over the template: stack holds the index after each "{" still
\* open; a "}" closes the innermost one and yields the text between them
ScanVariables(s, i, stack) ==
    IF i > Len(s) THEN <<>>
    ELSE IF s[i] = "{" THEN ScanVariables(s, i + 1, Append(stack, i + 1))
    ELSE IF s[i] = "}" /\ stack # <<>>
         THEN <<SubSeq(s, stack[Len(stack)], i - 1)>>
                \o ScanVariables(s, i + 1, SubSeq(stack, 1, Len(stack) - 1))
    ELSE ScanVariables(s, i + 1, stack)

\* getInputVariables(workerPrompt): the ordered set of names referenced by
\* {name} placeholders
getInputVariables(paramValue) == Dedupe(ScanVariables(paramValue, 1, <<>>))

RECURSIVE GetSubstitution(_, _, _, _)
\* the replacement text of String.prototype.replaceAll for one match of
\* matched at index position of str: a doubled dollar sign is one dollar
\* sign and a dollar sign before an ampersand is the matched text (the
\* patterns naming the text before and after the match need characters the
\* drawn values do not hold)
GetSubstitution(replacement, matched, str, position) ==
    IF replacement = <<>> THEN <<>>
    ELSE IF Head(replacement) = "$" /\ Len(replacement) >= 2
            /\ replacement[2] \in {"$", "&"}
         THEN (IF replacement[2] = "$" THEN <<"$">> ELSE matched)
              \o GetSubstitution(SubSeq(replacement, 3, Len(replacement)), matched, str, position)
    ELSE <<Head(replacement)>> \o GetSubstitution(Tail(replacement), matched, str, position)

RECURSIVE ReplaceFrom(_, _, _, _)
ReplaceFrom(str, pattern, replacement, i) ==
    IF i > Len(str) THEN <<>>
    ELSE IF MatchesAt(str, pattern, i)
         THEN GetSubstitution(replacement, pattern, str, i)
                \o ReplaceFrom(str, pattern, replacement, i + Len(pattern))
    ELSE <<str[i]>> \o ReplaceFrom(str, pattern, replacement, i + 1)

\* str.replaceAll(pattern, replacement) for a non-empty text pattern
replaceAll(str, pattern, replacement) == ReplaceFrom(str, pattern, replacement, 1)

\* `{${inputVariable}}`
Placeholder(inputVariable) == <<"{">> \o inputVariable \o <<"}">>

\* workerInputVariables.every((element) => Object.keys(values).includes(element))
AllVariablesProvided(workerInputVariables, workerInputVariablesValues) ==
    \A i \in 1..Len(workerInputVariables) :
        workerInputVariables[i] \in DOMAIN workerInputVariablesValues

RECURSIVE SubstituteVariables(_, _, _)
\* for (const inputVariable of workerInputVariables)
\*     workerPrompt = workerPrompt.replaceAll(`{${inputVariable}}`, values[inputVariable])
SubstituteVariables(workerPrompt, workerInputVariables, workerInputVariablesValues) ==
    IF workerInputVariables = <<>> THEN workerPrompt
    ELSE SubstituteVariables(
             replaceAll(workerPrompt, Placeholder(Head(workerInputVariables)),
                        workerInputVariablesValues[Head(workerInputVariables)]),
             Tail(workerInputVariables), workerInputVariablesValues)

(* ------------------------------ errors --------------------------------- *)
\* a thrown value: the constructor, the fixed text of the message and the
\* texts concatenated onto it
Err(name, message, args) == [name |-> name, message |-> message, args |-> args]

NoError == Err("none", "", <<>>)

NameRequired == Err("Error", "Worker name is required!", <<>>)

\* "Invalid JSON in the Worker's Prompt Input Values: " + exception
InvalidJSON == Err("Error", "Invalid JSON in the Worker's Prompt Input Values: ",
                   <<<<"SyntaxError">>>>)

ValuesNotProvided == Err("Error", "Worker input variables values are not provided!", <<>>)

UnsupportedModel == Err("Error", "This agent only compatible with function calling models.", <<>>)

\* reading a property of undefined (supervisor.llm, supervisor.name)
PropertyOfUndefined == Err("TypeError", "Cannot read properties of undefined", <<>>)

Aborted == Err("Error", "Aborted!", <<>>)

(* --------------------------- Agent Factory ----------------------------- *)
\* the chat models: the node's own and the supervisor's, each with or
\* without bindTools
NoModel == "undefined"
NodeModels == {"nodeToolModel", "nodePlainModel"}
SupervisorModels == {"supToolModel", "supPlainModel"}

\* llm.bindTools !== undefined
HasBindTools(llm) == llm \in {"nodeToolModel", "supToolModel"}

\* the fixed text createAgent appends to the system prompt, kept as one element
Boilerplate == <<"\nWork autonomously ... one of the following team members: {team_members}.">>

\* maxIterations: undefined
NoCap == -1

DigitValue(c) ==
    CASE c = "0" -> 0 [] c = "1" -> 1 [] c = "2" -> 2 [] c = "3" -> 3 [] c = "4" -> 4
      [] c = "5" -> 5 [] c = "6" -> 6 [] c = "7" -> 7 [] c = "8" -> 8 [] OTHER -> 9

RECURSIVE parseFloat(_)
\* parseFloat of a text of decimal digits
parseFloat(digits) ==
    IF digits = <<>> THEN 0
    ELSE 10 * parseFloat(SubSeq(digits, 1, Len(digits) - 1)) + DigitValue(digits[Len(digits)])

\* the executor built without the maxIterations option
IterationCapDropped(maxIterations) == NoCap

\* maxIterations ? parseFloat(maxIterations) : undefined
IterationCap(maxIterations) ==
    IF maxIterations = Undefined \/ maxIterations = <<>> THEN NoCap ELSE parseFloat(maxIterations)

NoAgent == [kind |-> "none", llm |-> NoModel, tools |-> <<>>,
            systemPrompt |-> Undefined, maxIterations |-> NoCap]

\* createAgent that builds the tool-calling executor whatever the tool list
createAgentAlwaysExecutor(llm, tools, systemPrompt, maxIterations) ==
    IF ~HasBindTools(llm)
    THEN [error |-> UnsupportedModel, agent |-> NoAgent]
    ELSE [error |-> NoError,
          agent |-> [kind |-> "executor", llm |-> llm, tools |-> tools,
                     systemPrompt |-> systemPrompt \o Boilerplate,
                     maxIterations |-> IterationCap(maxIterations)]]

\* createAgent that binds the tools without looking for llm.bindTools
createAgentUnchecked(llm, tools, systemPrompt, maxIterations) ==
    IF Len(tools) > 0
    THEN [error |-> NoError,
          agent |-> [kind |-> "executor", llm |-> llm, tools |-> tools,
                     systemPrompt |-> systemPrompt \o Boilerplate,
                     maxIterations |-> IterationCap(maxIterations)]]
    ELSE [error |-> NoError,
          agent |-> [kind |-> "chain", llm |-> llm, tools |-> <<>>,
                     systemPrompt |-> systemPrompt \o Boilerplate,
                     maxIterations |-> NoCap]]

\* createAgent(llm, tools, systemPrompt, maxIterations, flowObj): the error
\* thrown, or the executor (tools) or the conversation chain (no tools)
createAgent(llm, tools, systemPrompt, maxIterations) ==
    IF Len(tools) > 0
    THEN IF ~HasBindTools(llm)
         THEN [error |-> UnsupportedModel, agent |-> NoAgent]
         ELSE [error |-> NoError,
               agent |-> [kind |-> "executor", llm |-> llm, tools |-> tools,
                          systemPrompt |-> systemPrompt \o Boilerplate,
                          maxIterations |-> IterationCap(maxIterations)]]
    ELSE [error |-> NoError,
          agent |-> [kind |-> "chain", llm |-> llm, tools |-> <<>>,
                     systemPrompt |-> systemPrompt \o Boilerplate,
                     maxIterations |-> NoCap]]

(* ------------------------ Worker Node Adapter -------------------------- *)
\* lodash flatten(tools): one level of nesting removed; undefined gives []
flatten(tools) ==
    IF ~tools.defined THEN <<>>
    ELSE Concat([i \in 1..Len(tools.list) |-> tools.list[i].items])

\* !workerLabel, with the empty name let through
NameUndefined(workerLabel) == workerLabel = Undefined

\* !workerLabel
NameMissing(workerLabel) == workerLabel = Undefined \/ workerLabel = <<>>

\* the prompt input values: nothing (undefined or ''), an object, the text
\* of a JSON object, or text JSON.parse rejects
NoValues == [kind |-> "undefined", value |-> <<>>]

\* a catch block that swallows the exception of JSON.parse
ParseSwallowed(promptValuesStr) == FALSE

\* does the try block around JSON.parse throw
ParseFails(promptValuesStr) == promptValuesStr.kind = "badjson"

\* workerInputVariablesValues after the parse
ParsedValues(promptValuesStr) ==
    IF promptValuesStr.kind \in {"object", "json"} THEN promptValuesStr.value ELSE <<>>

NoSupervisor == [defined |-> FALSE, llm |-> NoModel, name |-> Undefined]

\* supervisor.llm || model: the supervisor's model preferred to the node's own
SupervisorFirst(model, supervisor) ==
    IF supervisor.defined THEN supervisor.llm ELSE model

\* model || supervisor.llm, for a supervisor that is defined or a model that is set
EffectiveModel(model, supervisor) ==
    IF model # NoModel THEN model ELSE supervisor.llm

\* supervisor.name ?? 'supervisor'
ParentSupervisorName(supervisor) ==
    IF supervisor.name = Undefined
    THEN <<"s", "u", "p", "e", "r", "v", "i", "s", "o", "r">>
    ELSE supervisor.name

NoWorker == [name |-> Undefined, label |-> Undefined, type |-> "none",
             workerPrompt |-> Undefined, workerInputVariables |-> <<>>,
             parentSupervisorName |-> Undefined]

\* init ended by a throw, after calls calls of createAgent
Thrown(error, calls) ==
    [state |-> "failed", error |-> error, worker |-> NoWorker, agent |-> NoAgent,
     made |-> NoAgent, createAgentCalls |-> calls]

\* Worker_MultiAgents.init(nodeData, input, options) on the inputs in: what
\* it throws or returns, and how often it called createAgent
Construct(in) ==
    IF NameMissing(in.workerName) THEN Thrown(NameRequired, 0)
    ELSE IF ParseFails(in.promptValues) THEN Thrown(InvalidJSON, 0)
    ELSE IF in.model = NoModel /\ ~in.supervisor.defined THEN Thrown(PropertyOfUndefined, 0)
    ELSE
      LET workerName == Normalize(in.workerName)
          workerInputVariablesValues == ParsedValues(in.promptValues)
          llm == EffectiveModel(in.model, in.supervisor)
          workerInputVariables == getInputVariables(in.workerPrompt)
      IN IF ~AllVariablesProvided(workerInputVariables, workerInputVariablesValues)
         THEN Thrown(ValuesNotProvided, 0)
         ELSE
           LET workerPrompt == SubstituteVariables(in.workerPrompt, workerInputVariables,
                                                   workerInputVariablesValues)
               made == createAgent(llm, flatten(in.tools), workerPrompt, in.maxIterations)
           IN IF made.error # NoError THEN Thrown(made.error, 1)
              ELSE IF ~in.supervisor.defined
                   THEN [Thrown(PropertyOfUndefined, 1) EXCEPT !.made = made.agent]
              ELSE [state |-> "configured", error |-> NoError,
                    worker |-> [name |-> workerName, label |-> in.workerName,
                                type |-> "worker", workerPrompt |-> workerPrompt,
                                workerInputVariables |-> workerInputVariables,
                                parentSupervisorName |-> ParentSupervisorName(in.supervisor)],
                    agent |-> made.agent, made |-> made.agent, createAgentCalls |-> 1]

(* --------------------------- drawn inputs ------------------------------ *)
LabelChars == {"A", "a", " ", "\t"}
Labels == {Undefined} \cup SeqsUpTo(LabelChars, MaxLabelLen)

VariableNames == {<<"a">>, <<"b">>}
TemplatePieces == {<<"t">>} \cup {Placeholder(v) : v \in VariableNames}
Templates == {Concat(ps) : ps \in SeqsUpTo(TemplatePieces, MaxTemplateSegs)}

ValuePieces == {<<"x">>, Placeholder(<<"b">>), <<"$", "&">>}
Values == {Concat(ps) : ps \in SeqsUpTo(ValuePieces, MaxValueSegs)}
ValueMaps == UNION {[K -> Values] : K \in SUBSET VariableNames}

PromptValues ==
    {NoValues, [kind |-> "badjson", value |-> <<>>]}
      \cup {[kind |-> k, value |-> m] : k \in {"object", "json"}, m \in ValueMaps}

ToolNames == {"search"}
ToolElements ==
    {[array |-> FALSE, items |-> <<t>>] : t \in ToolNames}
      \cup {[array |-> TRUE, items |-> ts] : ts \in SeqsUpTo(ToolNames, MaxTools)}
NoToolInput == [defined |-> FALSE, list |-> <<>>]
ToolInputs == {NoToolInput} \cup {[defined |-> TRUE, list |-> l] : l \in SeqsUpTo(ToolElements, 1)}

Supervisors ==
    {NoSupervisor}
      \cup {[defined |-> TRUE, llm |-> m, name |-> n] :
               m \in SupervisorModels, n \in {Undefined, <<"s", "1">>}}

Digits == <<"0", "1", "2", "3", "4", "5", "6", "7", "8", "9">>
MaxIterationInputs == {Undefined, <<>>} \cup {<<Digits[n + 1]>> : n \in 0..MaxIterCap}

DefaultLabel == <<"A", " ", "a">>
DefaultSupervisor == [defined |-> TRUE, llm |-> "supToolModel", name |-> <<"s", "1">>]

Inputs(labels, templates, promptValues, tools, supervisors, models, caps) ==
    [workerName : labels, workerPrompt : templates, promptValues : promptValues,
     tools : tools, supervisor : supervisors, model : models, maxIterations : caps]

\* every display name, the rest of the configuration fixed
LabelCases ==
    Inputs(Labels, {<<"t">>}, {NoValues}, {NoToolInput}, {DefaultSupervisor}, {NoModel},
           {Undefined})

\* every template with every mapping of values, the rest fixed
PromptCases ==
    Inputs({DefaultLabel}, Templates, PromptValues, {NoToolInput}, {DefaultSupervisor},
           {NoModel}, {Undefined})

\* every combination of the other inputs, with two names and two templates
ConfigCases ==
    Inputs({Undefined, <<>>, DefaultLabel}, {<<"t">>, Placeholder(<<"a">>)},
           {NoValues, [kind |-> "badjson", value |-> <<>>],
            [kind |-> "json", value |-> (<<"a">> :> <<"x">>)]},
           ToolInputs, Supervisors, {NoModel} \cup NodeModels, MaxIterationInputs)

(* ------------------------------- state --------------------------------- *)
VARIABLES
    inputs,            \* nodeData.inputs
    initState,         \* "unconfigured", "configured" or "failed"
    initError,         \* what init threw
    worker,            \* returnOutput, the Worker Definition
    agent,             \* the agent the worker's step is bound to
    created,           \* what the last call of createAgent returned
    createAgentCalls   \* how often createAgent has been called

buildVars == <<inputs, initState, initError, worker, agent, created, createAgentCalls>>

\* the state of one NodeInputHandler of the canvas, the form of one input
\* parameter of a node
VARIABLES
    inputParam,                  \* the inputParam prop
    data,                        \* the data prop, the node whose inputs the form edits
    showAsyncOptionDialog,       \* useState('')
    asyncOptionEditDialogProps,  \* useState({})
    reloadTimestamp,             \* useState(Date.now().toString())
    event                        \* the callback that ran last and its argument

formVars == <<inputParam, data, showAsyncOptionDialog, asyncOptionEditDialogProps,
              reloadTimestamp, event>>

InitBuild(cases) ==
    /\ inputs \in cases
    /\ initState = "unconfigured"
    /\ initError = NoError
    /\ worker = NoWorker
    /\ agent = NoAgent
    /\ created = NoAgent
    /\ createAgentCalls = 0

\* graph initialisation calls init once
init ==
    /\ initState = "unconfigured"
    /\ LET built == Construct(inputs)
       IN /\ initState' = built.state
          /\ initError' = built.error
          /\ worker' = built.worker
          /\ agent' = built.agent
          /\ created' = built.made
          /\ createAgentCalls' = createAgentCalls + built.createAgentCalls
    /\ UNCHANGED inputs
    /\ UNCHANGED formVars

(* ----------------------- claims on construction ------------------------ *)
\* init has run on the drawn inputs
Built == initState # "unconfigured"

\* init got past the name check, the JSON parse and the choice of the model
ReachedResolver ==
    /\ Built
    /\ ~NameMissing(inputs.workerName)
    /\ ~ParseFails(inputs.promptValues)
    /\ (inputs.model # NoModel \/ inputs.supervisor.defined)

\* C5: when every placeholder name of the template is a key of the values,
\* substitution succeeds and the resolved prompt holds no {name} placeholder
\* any more; otherwise construction fails with the Configuration error
\* before any agent is built.
C5_ResolvedPromptHasNoPlaceholder ==
    ReachedResolver =>
        IF AllVariablesProvided(getInputVariables(inputs.workerPrompt),
                                ParsedValues(inputs.promptValues))
        THEN /\ initError # ValuesNotProvided
             /\ createAgentCalls = 1
             /\ initState = "configured" => getInputVariables(worker.workerPrompt) = <<>>
        ELSE /\ initState = "failed"
             /\ initError = ValuesNotProvided
             /\ createAgentCalls = 0

\* C6: init with a missing or empty worker name fails with the 'Worker name
\* is required!' Configuration error, createAgent is never called and no
\* Worker Definition is returned, whatever the other inputs are.
C6_MissingNameFailsBeforeFactory ==
    (Built /\ inputs.workerName \in {Undefined, <<>>}) =>
        /\ initState = "failed"
        /\ initError = NameRequired
        /\ createAgentCalls = 0
        /\ created = NoAgent
        /\ worker = NoWorker
        /\ agent = NoAgent

\* an empty name was given together with tools and a model that would
\* otherwise have built an executor
C6_Witness ==
    /\ initState = "failed"
    /\ inputs.workerName = <<>>
    /\ Len(flatten(inputs.tools)) > 0
    /\ inputs.model = "nodeToolModel"
    /\ inputs.supervisor.defined

ResearchAssistant ==
    <<"R", "e", "s", "e", "a", "r", "c", "h", " ",
      "A", "s", "s", "i", "s", "t", "a", "n", "t">>

\* C7: normalizing the name of a constructed worker again returns it
\* unchanged, for every non-empty display name, and "Research Assistant"
\* normalizes to "research_assistant".
C7_NormalizeIdempotent ==
    /\ initState = "configured" =>
          /\ worker.name = Normalize(worker.label)
          /\ Normalize(worker.name) = worker.name
    /\ Normalize(ResearchAssistant) =
          <<"r", "e", "s", "e", "a", "r", "c", "h", "_",
            "a", "s", "s", "i", "s", "t", "a", "n", "t">>

\* a name with capitals and two white-space characters was normalized
C7_Witness ==
    /\ initState = "configured"
    /\ worker.label = <<" ", "\t", "A">>
    /\ worker.name = <<"_", "_", "a">>

\* C9: createAgent throws the function-calling error exactly when the
\* flattened tool list is non-empty and the effective model has no
\* bindTools; with an empty tool list it returns the conversation chain,
\* and with tools and a binding model the executor.
C9_UnsupportedModelExactly ==
    Built =>
        LET tools == flatten(inputs.tools)
            llm == EffectiveModel(inputs.model, inputs.supervisor)
        IN /\ (initError = UnsupportedModel) <=>
                  (createAgentCalls = 1 /\ Len(tools) > 0 /\ ~HasBindTools(llm))
           /\ (createAgentCalls = 1 /\ Len(tools) = 0) =>
                  (created.kind = "chain" /\ created.llm = llm)
           /\ (createAgentCalls = 1 /\ Len(tools) > 0 /\ HasBindTools(llm)) =>
                  (created.kind = "executor" /\ created.tools = tools /\ created.llm = llm)
           /\ (initError = UnsupportedModel) => (created = NoAgent /\ initState = "failed")

\* tools were given with a model that has no bindTools
C9_Witness ==
    /\ initError = UnsupportedModel
    /\ Len(flatten(inputs.tools)) > 0
    /\ inputs.model = "nodePlainModel"

\* C10: the error for a missing prompt-variable value carries the name or
\* the label of the worker that failed.
C10_ErrorIdentifiesWorker ==
    (Built /\ initError = ValuesNotProvided) =>
        \E i \in 1..Len(initError.args) :
            initError.args[i] \in {inputs.workerName, Normalize(inputs.workerName)}

(* ---------------------- Agent Invocation Wrapper ----------------------- *)
MetadataKinds == {"usedTools", "sourceDocuments"}

\* what agent.invoke resolves to: a string (the conversation chain) or an
\* object with output and the metadata fields named by has
StringResult(text) ==
    [type |-> "string", text |-> text, output |-> Undefined, has |-> {},
     usedTools |-> <<>>, sourceDocuments |-> <<>>]

ObjectResult(output, has, usedTools, sourceDocuments) ==
    [type |-> "object", text |-> Undefined, output |-> output, has |-> has,
     usedTools |-> usedTools, sourceDocuments |-> sourceDocuments]

NoResult ==
    [type |-> "none", text |-> Undefined, output |-> Undefined, has |-> {},
     usedTools |-> <<>>, sourceDocuments |-> <<>>]

\* additional_kwargs: undefined
NoKwargs == [defined |-> FALSE, keys |-> {}, usedTools |-> <<>>, sourceDocuments |-> <<>>]

\* additional_kwargs that is always the object, also when it is empty
KwargsAlwaysObject(result) ==
    [defined |-> TRUE, keys |-> result.has,
     usedTools |-> IF "usedTools" \in result.has THEN result.usedTools ELSE <<>>,
     sourceDocuments |->
         IF "sourceDocuments" \in result.has THEN result.sourceDocuments ELSE <<>>]

\* Object.keys(additional_kwargs).length ? additional_kwargs : undefined,
\* after the two if statements that copy usedTools and sourceDocuments
AdditionalKwargs(result) ==
    IF result.has = {} THEN NoKwargs
    ELSE [defined |-> TRUE, keys |-> result.has,
          usedTools |-> IF "usedTools" \in result.has THEN result.usedTools ELSE <<>>,
          sourceDocuments |->
              IF "sourceDocuments" \in result.has THEN result.sourceDocuments ELSE <<>>]

\* content that is always result.output
ContentOutputOnly(result) == result.output

\* typeof result === 'string' ? result : result.output
Content(result) == IF result.type = "string" THEN result.text ELSE result.output

\* new HumanMessage({ content, name, additional_kwargs })
HumanMessage(result, name) ==
    [content |-> Content(result), name |-> name,
     additional_kwargs |-> AdditionalKwargs(result)]

\* the entry check left out
SignalIgnored(aborted) == FALSE

\* abortControllerSignal.signal.aborted at the entry of agentNode
SignalAborted(aborted) == aborted

\* the error a failure of agent.invoke raises itself
CauseError(cause) == Err("Error", cause, <<>>)

\* a catch block that throws the error it caught
Rethrown(cause) == IF cause = "cancelled" THEN Aborted ELSE CauseError(cause)

\* catch (error) { throw new Error('Aborted!') }
Caught(cause) == Aborted

(* --------------------------- agent.invoke ------------------------------ *)
AnswerText == <<"o", "k">>
StoppedText == <<"Agent stopped due to max iterations.">>

\* the executor's scratchpad at the start of an invocation
NoRun == [iterations |-> 0, usedTools |-> <<>>, sourceDocuments |-> <<>>]

\* the executor's result: the output with used-tool metadata when a tool was
\* invoked during the turn and source documents when a tool returned some
ExecutorOutput(output, r) ==
    ObjectResult(output,
                 {k \in MetadataKinds :
                     \/ k = "usedTools" /\ r.usedTools # <<>>
                     \/ k = "sourceDocuments" /\ r.sourceDocuments # <<>>},
                 r.usedTools, r.sourceDocuments)

\* may the executor call the model once more
MayIterate(cap, iterations) ==
    IF cap = NoCap THEN TRUE ELSE iterations < cap

VARIABLES
    aborted,       \* abortControllerSignal.signal.aborted
    pc,            \* "idle", or "awaiting" while agentNode awaits agent.invoke
    calls,         \* invocations of the worker's step so far
    teamState,     \* state.messages, the shared Team State
    run,           \* the scratchpad of the agent call in flight
    entryAborted,  \* the signal as it was when the invocation in flight began
    last           \* how the last finished invocation ended

runVars == <<aborted, pc, calls, teamState, run, entryAborted, last>>
vars == <<inputs, initState, initError, worker, agent, created, createAgentCalls,
          aborted, pc, calls, teamState, run, entryAborted, last,
          inputParam, data, showAsyncOptionDialog, asyncOptionEditDialogProps,
          reloadTimestamp, event>>

NoDelta == [messages |-> <<>>]

NoOutcome ==
    [kind |-> "none", error |-> NoError, delta |-> NoDelta, abortedAtEntry |-> FALSE,
     abortedAtEnd |-> FALSE, agentInvoked |-> FALSE, cause |-> "none",
     result |-> NoResult, toolCalls |-> 0, appended |-> FALSE]

\* agentNode threw: the catch block turns the failure into its error
Threw(cause, atEntry, invoked, atEnd) ==
    [NoOutcome EXCEPT !.kind = "threw", !.error = Caught(cause), !.cause = cause,
                      !.abortedAtEntry = atEntry, !.agentInvoked = invoked,
                      !.abortedAtEnd = atEnd]

\* agentNode with the signal tested once more after the await: a result that
\* arrives with the signal set is thrown away
ReturnedUnlessAborted(result, name, atEntry, toolCalls, atEnd) ==
    IF atEnd
    THEN [NoOutcome EXCEPT !.kind = "threw", !.error = Aborted, !.cause = "cancelled",
                           !.abortedAtEntry = atEntry, !.agentInvoked = TRUE,
                           !.abortedAtEnd = atEnd, !.result = result,
                           !.toolCalls = toolCalls]
    ELSE [NoOutcome EXCEPT !.kind = "returned",
                           !.delta = [messages |-> <<HumanMessage(result, name)>>],
                           !.abortedAtEntry = atEntry, !.agentInvoked = TRUE,
                           !.abortedAtEnd = atEnd, !.result = result,
                           !.toolCalls = toolCalls]

\* agentNode returned { messages: [new HumanMessage(...)] } for the result
\* agent.invoke resolved to; atEnd is the signal at that moment, which the
\* code after the await does not read
Returned(result, name, atEntry, toolCalls, atEnd) ==
    [NoOutcome EXCEPT !.kind = "returned",
                      !.delta = [messages |-> <<HumanMessage(result, name)>>],
                      !.abortedAtEntry = atEntry, !.agentInvoked = TRUE,
                      !.abortedAtEnd = atEnd, !.result = result,
                      !.toolCalls = toolCalls]

\* agentNode that pushes its message onto state.messages itself
StateAfterInvokePushed(state, delta) == state \o delta.messages

\* state.messages after agentNode has run: the state is only spread into the
\* argument of agent.invoke, nothing is assigned to it
StateAfterInvoke(state, delta) == state

InitRun ==
    /\ aborted \in BOOLEAN
    /\ pc = "idle"
    /\ calls = 0
    /\ teamState = <<>>
    /\ run = NoRun
    /\ entryAborted = FALSE
    /\ last = NoOutcome

\* a workerNode that builds its agent anew on every call instead of using
\* the one init built
agentNodeRebuilding ==
    /\ initState = "configured"
    /\ pc = "idle"
    /\ calls < MaxCalls
    /\ calls' = calls + 1
    /\ agent' = createAgent(EffectiveModel(inputs.model, inputs.supervisor),
                            flatten(inputs.tools), worker.workerPrompt,
                            inputs.maxIterations).agent
    /\ created' = agent'
    /\ createAgentCalls' = createAgentCalls + 1
    /\ IF SignalAborted(aborted)
       THEN /\ last' = Threw("cancelled", TRUE, FALSE, aborted)
            /\ UNCHANGED <<pc, run, entryAborted>>
       ELSE /\ pc' = "awaiting"
            /\ run' = NoRun
            /\ entryAborted' = aborted
            /\ UNCHANGED last
    /\ UNCHANGED <<aborted, teamState, inputs, initState, initError, worker>>
    /\ UNCHANGED formVars

\* a workerNode that looks at the signal on its first call only
agentNodeFirstCallOnly ==
    /\ initState = "configured"
    /\ pc = "idle"
    /\ calls < MaxCalls
    /\ calls' = calls + 1
    /\ IF calls = 0 /\ SignalAborted(aborted)
       THEN /\ last' = Threw("cancelled", TRUE, FALSE, aborted)
            /\ UNCHANGED <<pc, run, entryAborted>>
       ELSE /\ pc' = "awaiting"
            /\ run' = NoRun
            /\ entryAborted' = aborted
            /\ UNCHANGED last
    /\ teamState' = StateAfterInvoke(teamState, NoDelta)
    /\ UNCHANGED aborted
    /\ UNCHANGED buildVars
    /\ UNCHANGED formVars

\* the orchestrator calls workerNode(state, config): agentNode up to its await
agentNode ==
    /\ initState = "configured"
    /\ pc = "idle"
    /\ calls < MaxCalls
    /\ calls' = calls + 1
    /\ IF SignalAborted(aborted)
       THEN /\ last' = Threw("cancelled", TRUE, FALSE, aborted)
            /\ UNCHANGED <<pc, run, entryAborted>>
       ELSE /\ pc' = "awaiting"
            /\ run' = NoRun
            /\ entryAborted' = aborted
            /\ UNCHANGED last
    /\ teamState' = StateAfterInvoke(teamState, NoDelta)
    /\ UNCHANGED aborted
    /\ UNCHANGED buildVars
    /\ UNCHANGED formVars

\* the conversation chain resolves with the model's text
ChainAnswers ==
    /\ pc = "awaiting"
    /\ agent.kind = "chain"
    /\ last' = Returned(StringResult(AnswerText), worker.name, entryAborted, 0, aborted)
    /\ pc' = "idle"
    /\ teamState' = StateAfterInvoke(teamState, last'.delta)
    /\ UNCHANGED <<aborted, calls, run, entryAborted>>
    /\ UNCHANGED buildVars
    /\ UNCHANGED formVars

\* the executor's model asks for a tool, the tool runs and its result joins
\* the scratchpad
ExecutorCallsTool ==
    /\ pc = "awaiting"
    /\ agent.kind = "executor"
    /\ MayIterate(agent.maxIterations, run.iterations)
    /\ run.iterations < MaxSteps
    /\ \E i \in 1..Len(agent.tools), withDocuments \in BOOLEAN :
          run' = [iterations |-> run.iterations + 1,
                  usedTools |-> Append(run.usedTools, agent.tools[i]),
                  sourceDocuments |->
                      IF withDocuments THEN Append(run.sourceDocuments, "doc")
                      ELSE run.sourceDocuments]
    /\ UNCHANGED <<aborted, pc, calls, teamState, entryAborted, last>>
    /\ UNCHANGED buildVars
    /\ UNCHANGED formVars

\* the executor's model gives its final answer
ExecutorAnswers ==
    /\ pc = "awaiting"
    /\ agent.kind = "executor"
    /\ MayIterate(agent.maxIterations, run.iterations)
    /\ last' = Returned(ExecutorOutput(AnswerText, run), worker.name, entryAborted,
                        Len(run.usedTools), aborted)
    /\ pc' = "idle"
    /\ teamState' = StateAfterInvoke(teamState, last'.delta)
    /\ UNCHANGED <<aborted, calls, run, entryAborted>>
    /\ UNCHANGED buildVars
    /\ UNCHANGED formVars

\* the iteration cap is reached: the executor stops with its stop output or
\* with an error
ExecutorStops ==
    /\ pc = "awaiting"
    /\ agent.kind = "executor"
    /\ ~MayIterate(agent.maxIterations, run.iterations)
    /\ \E how \in {"stop", "error"} :
          last' = IF how = "stop"
                  THEN Returned(ExecutorOutput(StoppedText, run), worker.name,
                                entryAborted, Len(run.usedTools), aborted)
                  ELSE Threw("modelError", entryAborted, TRUE, aborted)
    /\ pc' = "idle"
    /\ teamState' = StateAfterInvoke(teamState, last'.delta)
    /\ UNCHANGED <<aborted, calls, run, entryAborted>>
    /\ UNCHANGED buildVars
    /\ UNCHANGED formVars

\* agent.invoke rejects: a timeout, a model error, a tool error, or the
\* model or tool call honouring the signal
AgentRejects ==
    /\ pc = "awaiting"
    /\ \E cause \in {"timeout", "modelError", "toolError", "cancelled"} :
          /\ cause = "toolError" => (agent.kind = "executor" /\ run.usedTools # <<>>)
          /\ cause = "cancelled" => aborted
          /\ last' = Threw(cause, entryAborted, TRUE, aborted)
    /\ pc' = "idle"
    /\ teamState' = StateAfterInvoke(teamState, last'.delta)
    /\ UNCHANGED <<aborted, calls, run, entryAborted>>
    /\ UNCHANGED buildVars
    /\ UNCHANGED formVars

\* the user cancels: the abort controller's signal is set
Abort ==
    /\ ~aborted
    /\ aborted' = TRUE
    /\ UNCHANGED <<pc, calls, teamState, run, entryAborted, last>>
    /\ UNCHANGED buildVars
    /\ UNCHANGED formVars

\* the orchestrator appends the returned delta to the Team State
OrchestratorAppends ==
    /\ pc = "idle"
    /\ last.kind = "returned"
    /\ ~last.appended
    /\ teamState' = teamState \o last.delta.messages
    /\ last' = [last EXCEPT !.appended = TRUE]
    /\ UNCHANGED <<aborted, pc, calls, run, entryAborted>>
    /\ UNCHANGED buildVars
    /\ UNCHANGED formVars

(* -------------------------- node input form --------------------------- *)
\* the input parameters whose options can be created and edited in a dialog
EDITABLE_OPTIONS == {"selectedTool", "selectedAssistant"}

\* the asyncOptions parameters a form is rendered for
InputParamNames == EDITABLE_OPTIONS \cup {"selectedModel"}

\* the ids of the options there are to select
OptionIds == {"o1", "o2"}

\* what Date.now() can return
Clock == 0..MaxClock

\* is a value of data.inputs or an argument truthy
Truthy(value) == value \notin {"undefined", ""}

\* the empty object asyncOptionEditDialogProps starts as
NoDialogProps ==
    [type |-> "undefined", title |-> "undefined", toolId |-> "undefined",
     assistantId |-> "undefined"]

NoEvent == [handler |-> "none", arg |-> "undefined"]

\* data.inputs[name] = value
SetInput(nodeInputs, name, value) ==
    [f \in DOMAIN nodeInputs \cup {name} |-> IF f = name THEN value ELSE nodeInputs[f]]

\* <ToolDialog show={showAsyncOptionDialog === 'selectedTool'}>
ToolDialogShown == showAsyncOptionDialog = "selectedTool"

\* <AssistantDialog show={showAsyncOptionDialog === 'selectedAssistant'}>
AssistantDialogShown == showAsyncOptionDialog = "selectedAssistant"

\* the form as it is mounted: no dialog, no dialog props
InitForm(params, nodeInputs) ==
    /\ inputParam \in params
    /\ data \in [inputs : nodeInputs]
    /\ showAsyncOptionDialog = ""
    /\ asyncOptionEditDialogProps = NoDialogProps
    /\ reloadTimestamp \in Clock
    /\ event = NoEvent

\* the form of a node nobody has touched, its clock reading being the first
FormUntouched ==
    /\ InitForm({"selectedTool"}, {[f \in InputParamNames |-> "undefined"]})
    /\ reloadTimestamp = 0

\* editAsyncOption: the dialog props for editing the option that is
\* selected, then the dialog of the parameter
editAsyncOption(inputParamName, inputValue) ==
    /\ asyncOptionEditDialogProps' =
          IF inputParamName = "selectedTool"
          THEN [type |-> "EDIT", title |-> "edit tool", toolId |-> inputValue,
                assistantId |-> "undefined"]
          ELSE IF inputParamName = "selectedAssistant"
          THEN [type |-> "EDIT", title |-> "edit assistant", toolId |-> "undefined",
                assistantId |-> inputValue]
          ELSE asyncOptionEditDialogProps
    /\ showAsyncOptionDialog' = inputParamName
    /\ event' = [handler |-> "editAsyncOption", arg |-> inputValue]
    /\ UNCHANGED <<inputParam, data, reloadTimestamp>>
    /\ UNCHANGED <<buildVars, runVars>>

\* addAsyncOption: the dialog props for a new option, then the dialog of the
\* parameter
addAsyncOption(inputParamName) ==
    /\ asyncOptionEditDialogProps' =
          IF inputParamName = "selectedTool"
          THEN [type |-> "ADD", title |-> "add tool", toolId |-> "undefined",
                assistantId |-> "undefined"]
          ELSE IF inputParamName = "selectedAssistant"
          THEN [type |-> "ADD", title |-> "add assistant", toolId |-> "undefined",
                assistantId |-> "undefined"]
          ELSE asyncOptionEditDialogProps
    /\ showAsyncOptionDialog' = inputParamName
    /\ event' = [handler |-> "addAsyncOption", arg |-> "undefined"]
    /\ UNCHANGED <<inputParam, data, reloadTimestamp>>
    /\ UNCHANGED <<buildVars, runVars>>

\* an onConfirmAsyncOption that writes the field and leaves the dialog open
onConfirmAsyncOptionStaysOpen(selectedOptionId) ==
    /\ LET id == IF selectedOptionId = "undefined" THEN "" ELSE selectedOptionId
       IN IF ~Truthy(id)
          THEN /\ data' = [data EXCEPT !.inputs = SetInput(@, showAsyncOptionDialog, "")]
               /\ UNCHANGED reloadTimestamp
          ELSE /\ data' = [data EXCEPT !.inputs = SetInput(@, showAsyncOptionDialog, id)]
               /\ \E now \in Clock : now >= reloadTimestamp /\ reloadTimestamp' = now
    /\ asyncOptionEditDialogProps' = NoDialogProps
    /\ event' = [handler |-> "onConfirm", arg |-> selectedOptionId]
    /\ UNCHANGED <<inputParam, showAsyncOptionDialog>>
    /\ UNCHANGED <<buildVars, runVars>>

\* onConfirmAsyncOption(selectedOptionId = ''): the field named by the open
\* dialog gets the id, or '' when there is none; a new id also takes a new
\* clock reading for the key of the dropdown; then the props are emptied and
\* the dialog is closed
onConfirmAsyncOption(selectedOptionId) ==
    /\ LET id == IF selectedOptionId = "undefined" THEN "" ELSE selectedOptionId
       IN IF ~Truthy(id)
          THEN /\ data' = [data EXCEPT !.inputs = SetInput(@, showAsyncOptionDialog, "")]
               /\ UNCHANGED reloadTimestamp
          ELSE /\ data' = [data EXCEPT !.inputs = SetInput(@, showAsyncOptionDialog, id)]
               /\ \E now \in Clock : now >= reloadTimestamp /\ reloadTimestamp' = now
    /\ asyncOptionEditDialogProps' = NoDialogProps
    /\ showAsyncOptionDialog' = ""
    /\ event' = [handler |-> "onConfirm", arg |-> selectedOptionId]
    /\ UNCHANGED inputParam
    /\ UNCHANGED <<buildVars, runVars>>

\* onCancel={() => setAsyncOptionEditDialog('')}
onCancel ==
    /\ showAsyncOptionDialog' = ""
    /\ event' = [handler |-> "onCancel", arg |-> "undefined"]
    /\ UNCHANGED <<inputParam, data, asyncOptionEditDialogProps, reloadTimestamp>>
    /\ UNCHANGED <<buildVars, runVars>>

\* onSelect={(newValue) => (data.inputs[inputParam.name] = newValue)}
onSelect(newValue) ==
    /\ data' = [data EXCEPT !.inputs = SetInput(@, inputParam, newValue)]
    /\ event' = [handler |-> "onSelect", arg |-> newValue]
    /\ UNCHANGED <<inputParam, showAsyncOptionDialog, asyncOptionEditDialogProps,
                   reloadTimestamp>>
    /\ UNCHANGED <<buildVars, runVars>>

\* the dropdown offers to create an option for the editable parameters only
CreateNewChosen ==
    /\ inputParam \in EDITABLE_OPTIONS
    /\ addAsyncOption(inputParam)

\* the Edit button is there for an editable parameter with a value
EditClicked ==
    /\ inputParam \in EDITABLE_OPTIONS
    /\ Truthy(data.inputs[inputParam])
    /\ editAsyncOption(inputParam, data.inputs[inputParam])

\* an option of the dropdown is chosen
OptionSelected ==
    /\ inputParam \in InputParamNames
    /\ \E newValue \in OptionIds : onSelect(newValue)

\* the dialog that is shown confirms with the id of the saved option, with
\* no argument, or with an empty id
DialogConfirms ==
    /\ ToolDialogShown \/ AssistantDialogShown
    /\ \E selectedOptionId \in OptionIds \cup {"undefined", ""} :
          onConfirmAsyncOption(selectedOptionId)

\* the dialog that is shown is cancelled
DialogCancels ==
    /\ ToolDialogShown \/ AssistantDialogShown
    /\ onCancel

\* the configurations the worker is run with
RunCases ==
    Inputs({Undefined, DefaultLabel}, {Placeholder(<<"a">>)},
           {NoValues, [kind |-> "json", value |-> (<<"a">> :> <<"x">>)]},
           ToolInputs, {NoSupervisor, DefaultSupervisor}, {NoModel} \cup NodeModels,
           MaxIterationInputs)

Init == InitBuild(RunCases) /\ InitRun /\ FormUntouched

Next ==
    \/ init /\ UNCHANGED runVars
    \/ agentNode
    \/ ChainAnswers
    \/ ExecutorCallsTool
    \/ ExecutorAnswers
    \/ ExecutorStops
    \/ AgentRejects
    \/ Abort
    \/ OrchestratorAppends

\* construction, then the orchestrator's invocations of the worker's step
Spec == Init /\ [][Next]_vars

InitAllCases ==
    InitBuild(LabelCases \cup PromptCases \cup ConfigCases) /\ InitRun /\ FormUntouched

NextBuild == init /\ UNCHANGED runVars

\* construction alone, over every drawn display name, template, mapping of
\* values and configuration
SpecBuild == InitAllCases /\ [][NextBuild]_vars

(* ------------------------ claims on invocation ------------------------- *)
\* an invocation of the worker's step has finished
Finished == last.kind # "none"

\* the one message of the returned delta
Message == last.delta.messages[1]

\* C1: when the signal is already set as agentNode is entered, the
\* invocation throws Aborted and agent.invoke is not called during it; no
\* agent call is ever in flight for an invocation entered with the signal set.
C1_AbortedAtEntryNeverInvokes ==
    /\ (Finished /\ last.abortedAtEntry) =>
          /\ last.kind = "threw"
          /\ last.error = Aborted
          /\ ~last.agentInvoked
    /\ pc = "awaiting" => ~entryAborted

\* the worker's step was entered with the signal set
C1_Witness ==
    /\ last.kind = "threw"
    /\ last.abortedAtEntry
    /\ aborted
    /\ calls = 2

\* C2: whatever makes the worker's step fail (the signal set at entry, or
\* agent.invoke rejecting for a timeout, a model error or a tool error), the
\* caller gets the same error, Error('Aborted!').
C2_EveryFailureIsAborted ==
    last.kind = "threw" =>
        /\ last.cause \in {"cancelled", "timeout", "modelError", "toolError"}
        /\ last.error = Threw("cancelled", TRUE, FALSE, TRUE).error
        /\ last.error = Aborted

\* a tool error, with the signal never set
C2_Witness ==
    /\ last.kind = "threw"
    /\ last.cause = "toolError"
    /\ ~aborted

\* C3: a successful invocation returns a delta with exactly one message,
\* named by the normalized worker name fixed at construction, whose content
\* is the result itself when it is a string and its output field otherwise.
C3_OneMessageNamedAndFilled ==
    last.kind = "returned" =>
        /\ Len(last.delta.messages) = 1
        /\ Message.name = worker.name
        /\ Message.name = Normalize(inputs.workerName)
        /\ last.result.type = "string" => Message.content = last.result.text
        /\ last.result.type = "object" => Message.content = last.result.output

\* the chain's text became the content of the one message
C3_Witness ==
    /\ last.kind = "returned"
    /\ last.result.type = "string"
    /\ Message.content = AnswerText
    /\ Message.name = <<"a", "_", "a">>

\* C4: the message's additional_kwargs is an object exactly when the result
\* carries usedTools or sourceDocuments; it then holds exactly the kinds the
\* result carries, with the result's values, and is undefined otherwise.
C4_KwargsIffMetadata ==
    last.kind = "returned" =>
        LET kw == Message.additional_kwargs
        IN /\ kw.defined <=> (last.result.has # {})
           /\ kw.defined => /\ kw.keys = last.result.has
                            /\ kw.keys # {}
                            /\ "usedTools" \in kw.keys => kw.usedTools = last.result.usedTools
                            /\ "sourceDocuments" \in kw.keys =>
                                   kw.sourceDocuments = last.result.sourceDocuments
           /\ ~kw.defined => kw = NoKwargs

\* a result with used tools and no source documents
C4_Witness ==
    /\ last.kind = "returned"
    /\ last.result.has = {"usedTools"}
    /\ Message.additional_kwargs.keys = {"usedTools"}

C11_SignalReadOnlyAtEntry ==
    (Finished /\ ~last.abortedAtEntry) =>
        /\ last.agentInvoked
        /\ last.kind = "threw" => (last.result = NoResult /\ last.error = Aborted)
        /\ last.result # NoResult =>
              /\ last.kind = "returned"
              /\ last.delta.messages = <<HumanMessage(last.result, worker.name)>>

\* the signal was set during the agent call and the call's result was returned
C11_Witness ==
    /\ last.kind = "returned"
    /\ ~last.abortedAtEntry
    /\ last.abortedAtEnd
    /\ Len(last.delta.messages) = 1

\* C12: no step of the worker's invocation (its entry, the agent call, its
\* return or throw) changes the Team State it was given; the Team State
\* only ever grows at its end, so messages already in it are never
\* rewritten or removed.
C12_TeamStateLeftAlone ==
    [][/\ (calls' # calls \/ pc = "awaiting") => teamState' = teamState
       /\ Len(teamState') >= Len(teamState)
       /\ SubSeq(teamState', 1, Len(teamState)) = teamState]_vars

\* a second invocation has returned its delta and the Team State still
\* holds only the first message
C12_Witness ==
    /\ calls = 2
    /\ last.kind = "returned"
    /\ ~last.appended
    /\ Len(teamState) = 1
    /\ Len(last.delta.messages) = 1

\* C13: a successful construction has called createAgent exactly once, and
\* no later step (an invocation of the worker's step included) calls it
\* again or changes the Worker Definition or the agent bound to it.
C13_BuiltOnceNeverChanged ==
    /\ [](initState = "configured" =>
             /\ createAgentCalls = 1
             /\ agent = created
             /\ worker.name = Normalize(inputs.workerName)
             /\ worker.label = inputs.workerName)
    /\ [][initState = "configured" =>
             /\ initState' = "configured"
             /\ worker' = worker
             /\ agent' = agent
             /\ createAgentCalls' = createAgentCalls]_vars

\* two invocations have run on the worker built once
C13_Witness ==
    /\ initState = "configured"
    /\ createAgentCalls = 1
    /\ calls = 2
    /\ teamState # <<>>
    /\ last.kind = "returned"
    /\ last.appended

\* C14: whenever createAgent is called, the model it is given is the node's
\* own model if one is set, whatever the supervisor's model is, and the
\* supervisor's model otherwise; with no model of its own and no supervisor
\* construction fails and no agent is built.
C14_OwnModelElseSupervisors ==
    Built =>
        /\ (createAgentCalls = 1 /\ created # NoAgent /\ inputs.model # NoModel) =>
              created.llm = inputs.model
        /\ (createAgentCalls = 1 /\ created # NoAgent /\ inputs.model = NoModel) =>
              (inputs.supervisor.defined /\ created.llm = inputs.supervisor.llm)
        /\ (inputs.model = NoModel /\ ~inputs.supervisor.defined) =>
              (initState = "failed" /\ createAgentCalls = 0 /\ worker = NoWorker)
        /\ initState = "configured" => (inputs.supervisor.defined /\ agent.llm = created.llm)

\* the node's own model was used although the supervisor has another one
C14_Witness ==
    /\ initState = "configured"
    /\ inputs.model = "nodePlainModel"
    /\ inputs.supervisor.llm = "supToolModel"
    /\ agent.llm = "nodePlainModel"

(* ------------------------ the agent call ends -------------------------- *)
\* a step of the agent call in flight: a model call or tool call settles
AgentStep ==
    \/ ChainAnswers
    \/ ExecutorCallsTool
    \/ ExecutorAnswers
    \/ ExecutorStops
    \/ AgentRejects

\* the invocations under the assumption that every awaited model call and
\* tool call settles
SpecLive == Spec /\ WF_vars(AgentStep)

\* the Max Iterations input holds a number
CapConfigured == inputs.maxIterations \notin {Undefined, <<>>}

\* the number it holds
ConfiguredCap == parseFloat(inputs.maxIterations)

\* the executor is running or has run for the last finished invocation
ExecutorBuilt == initState = "configured" /\ agent.kind = "executor"

\* C15: for a worker built with tools and an iteration cap N, the executor
\* makes at most N tool-calling iterations, and every invocation ends (with
\* the final answer, the stop output or an error); with no cap configured
\* the executor never stops for the cap: a result it returns is the final
\* answer.
C15_CapBoundsLoop ==
    /\ []((ExecutorBuilt /\ CapConfigured) =>
             /\ agent.maxIterations = ConfiguredCap
             /\ pc = "awaiting" => run.iterations <= ConfiguredCap
             /\ last.kind = "returned" => last.toolCalls <= ConfiguredCap
             /\ (last.kind = "returned" /\ last.result.output = StoppedText) =>
                    last.toolCalls = ConfiguredCap)
    /\ []((ExecutorBuilt /\ ~CapConfigured /\ last.kind = "returned") =>
             last.result.output = AnswerText)
    /\ ((ExecutorBuilt /\ CapConfigured /\ pc = "awaiting") ~> (pc = "idle"))

\* the executor used its one allowed iteration and then stopped for the cap
C15_Witness ==
    /\ ExecutorBuilt
    /\ inputs.maxIterations = <<"1">>
    /\ last.kind = "returned"
    /\ last.result.output = StoppedText
    /\ last.toolCalls = 1

(* ------------------- the order of construction checks ----------------- *)
\* a referenced prompt variable has no value
ValuesMissing ==
    ~AllVariablesProvided(getInputVariables(inputs.workerPrompt),
                          ParsedValues(inputs.promptValues))

\* tools are given and the effective model has no bindTools
ModelCannotBind ==
    /\ Len(flatten(inputs.tools)) > 0
    /\ ~HasBindTools(EffectiveModel(inputs.model, inputs.supervisor))

\* neither a model of its own nor a supervisor to take one from
NoModelAtAll == inputs.model = NoModel /\ ~inputs.supervisor.defined

\* C16 as stated: the first failing check among the name, the JSON of the
\* prompt input values, the prompt-variable values and the factory's
\* Unsupported-Model check determines the error; a failed construction
\* returns no Worker Definition; createAgent is entered only after the first
\* three checks have passed.
C16_FourChecksInOrder ==
    Built =>
        /\ IF NameMissing(inputs.workerName) THEN initError = NameRequired
           ELSE IF inputs.promptValues.kind = "badjson" THEN initError = InvalidJSON
           ELSE IF ValuesMissing THEN initError = ValuesNotProvided
           ELSE IF ModelCannotBind THEN initError = UnsupportedModel
           ELSE TRUE
        /\ initState = "failed" => worker = NoWorker
        /\ createAgentCalls >= 1 =>
              /\ ~NameMissing(inputs.workerName)
              /\ inputs.promptValues.kind # "badjson"
              /\ ~ValuesMissing

\* C16 amended: between the JSON check and the prompt-variable check the
\* model is resolved, which throws a TypeError when the node has no model of
\* its own and no supervisor is configured; with that check in its place the
\* first failing check determines the error, a failed construction returns
\* no Worker Definition, and createAgent is entered only after the checks
\* before it have passed.
C16_FiveChecksInOrder ==
    Built =>
        /\ IF NameMissing(inputs.workerName)
           THEN initError = NameRequired /\ createAgentCalls = 0
           ELSE IF inputs.promptValues.kind = "badjson"
           THEN initError = InvalidJSON /\ initError.args # <<>> /\ createAgentCalls = 0
           ELSE IF NoModelAtAll
           THEN initError = PropertyOfUndefined /\ createAgentCalls = 0
           ELSE IF ValuesMissing
           THEN initError = ValuesNotProvided /\ createAgentCalls = 0
           ELSE IF ModelCannotBind
           THEN initError = UnsupportedModel /\ createAgentCalls = 1
           ELSE createAgentCalls = 1
        /\ initError # NoError => initState = "failed"
        /\ initState = "failed" => (worker = NoWorker /\ agent = NoAgent)
        /\ createAgentCalls >= 1 =>
              /\ ~NameMissing(inputs.workerName)
              /\ inputs.promptValues.kind # "badjson"
              /\ ~NoModelAtAll
              /\ ~ValuesMissing

\* a value is missing, but the missing model is what init reports
C16_Witness ==
    /\ initState = "failed"
    /\ ~NameMissing(inputs.workerName)
    /\ inputs.promptValues.kind # "badjson"
    /\ NoModelAtAll
    /\ ValuesMissing
    /\ initError = PropertyOfUndefined

(* ---------------------- the signal stays set -------------------------- *)
\* C17: nothing in the worker resets the cancellation signal; once it is set
\* every invocation entered afterwards throws Aborted at once, without
\* calling agent.invoke and without starting an agent run.
C17_SetSignalFailsEveryLaterCall ==
    [][aborted =>
          /\ aborted'
          /\ calls' # calls =>
                /\ last'.kind = "threw"
                /\ last'.error = Aborted
                /\ last'.abortedAtEntry
                /\ ~last'.agentInvoked
                /\ pc' = "idle"
                /\ run' = run]_vars

\* a first invocation returned and was appended, the signal was set
\* afterwards, and the second invocation failed at entry
C17_Witness ==
    /\ calls = 2
    /\ aborted
    /\ Len(teamState) = 1
    /\ last.kind = "threw"
    /\ last.abortedAtEntry
    /\ ~last.agentInvoked

(* --------------------- the order of substitution ---------------------- *)
RECURSIVE ReplaceSimultaneously(_, _, _, _)
\* every placeholder of a referenced variable in the original template
\* replaced by the variable's value in a single pass from index i, the
\* inserted text never being looked at again
ReplaceSimultaneously(template, names, values, i) ==
    IF i > Len(template) THEN <<>>
    ELSE LET here == {k \in 1..Len(names) : MatchesAt(template, Placeholder(names[k]), i)}
         IN IF here = {}
            THEN <<template[i]>> \o ReplaceSimultaneously(template, names, values, i + 1)
            ELSE LET k == CHOOSE k \in here : \A j \in here : k <= j
                 IN values[names[k]]
                      \o ReplaceSimultaneously(template, names, values,
                                               i + Len(Placeholder(names[k])))

\* C18: for a template whose placeholders are all covered by the values, the
\* prompt init resolves by replacing the variables one after another in
\* extraction order is the text obtained by replacing all placeholders of
\* the original template at once, also when a value holds the placeholder of
\* another referenced variable.
C18_SequentialIsSimultaneous ==
    initState = "configured" =>
        worker.workerPrompt =
            ReplaceSimultaneously(inputs.workerPrompt,
                                  getInputVariables(inputs.workerPrompt),
                                  ParsedValues(inputs.promptValues), 1)

(* ------------------ the dialogs of the node input form ---------------- *)
\* the node of the form is not built or run while the form is used
RunIdle ==
    /\ aborted = FALSE
    /\ pc = "idle"
    /\ calls = 0
    /\ teamState = <<>>
    /\ run = NoRun
    /\ entryAborted = FALSE
    /\ last = NoOutcome

InitFormCases ==
    /\ InitBuild({CHOOSE in \in LabelCases : in.workerName = DefaultLabel})
    /\ RunIdle
    /\ InitForm(InputParamNames, [InputParamNames -> {"undefined", "o1"}])

NextForm ==
    \/ CreateNewChosen
    \/ EditClicked
    \/ OptionSelected
    \/ DialogConfirms
    \/ DialogCancels

\* one form under every sequence of its callbacks
SpecForm == InitFormCases /\ [][NextForm]_vars

\* C19: whatever add-option, edit-option, confirm and cancel actions have
\* run, the tool dialog and the assistant dialog are not both shown; a
\* confirm and a cancel each leave neither dialog shown; a confirm writes
\* the field of data.inputs named by the dialog that was open, with the
\* selected id or the empty string when there is none, and no other field;
\* a cancel leaves every field of data.inputs as it was.
C19_DialogsCloseAndWriteOneField ==
    /\ [](~(ToolDialogShown /\ AssistantDialogShown))
    /\ [][/\ event'.handler = "onConfirm" =>
                /\ showAsyncOptionDialog' \notin EDITABLE_OPTIONS
                /\ DOMAIN data'.inputs = DOMAIN data.inputs
                /\ \A f \in DOMAIN data.inputs :
                      f # showAsyncOptionDialog => data'.inputs[f] = data.inputs[f]
                /\ data'.inputs[showAsyncOptionDialog] =
                      (IF Truthy(event'.arg) THEN event'.arg ELSE "")
          /\ event'.handler = "onCancel" =>
                /\ showAsyncOptionDialog' \notin EDITABLE_OPTIONS
                /\ data'.inputs = data.inputs]_vars

\* the assistant dialog was confirmed with an option while the tool field
\* held another one
C19_Witness ==
    /\ event = [handler |-> "onConfirm", arg |-> "o2"]
    /\ inputParam = "selectedAssistant"
    /\ data.inputs["selectedAssistant"] = "o2"
    /\ data.inputs["selectedTool"] = "o1"
    /\ showAsyncOptionDialog = ""
    /\ asyncOptionEditDialogProps = NoDialogProps

=============================================================================
